---- MODULE Spec2Model ----
(***************************************************************************)
(* Model of the crypto-converter quote consumer                            *)
(* (crypto_converter/consumer/main.py, consumer/binance.py, db/crud.py)    *)
(* and of the conversion endpoint (crypto_converter/api/routes.py).        *)
(*                                                                         *)
(* Every action is one step of an asyncio task: the code that runs between *)
(* two suspension points (await) of that task.  The tasks are run_consumer,*)
(* one run_batch ("supervisor") per batch and one saver ("flusher") per    *)
(* batch; on the query side, one convert_currency request handler.  Time   *)
(* is counted in minutes.                                                  *)
(***************************************************************************)
EXTENDS Integers, Sequences, FiniteSets, TLC

VARIABLES
    maxStreams,        \* settings.MAX_STREAMS_PER_CONN
    feed,              \* the price strings the exchange sends during this run
    rc,                \* run_consumer: where the coroutine is
    pairs,             \* run_consumer: the discovered (base, quote, symbol_lc) list
    batches,           \* run_consumer: list(chunked(pairs, MAX_STREAMS_PER_CONN))
    sup,               \* run_batch: where each batch's supervisor loop is
    backoff,           \* run_batch: the local variable backoff
    sleeping,          \* run_batch: argument of the asyncio.sleep in flight (0: none)
    fails,             \* history: stream failures since the last successful connection
    cancelReq,         \* Task.cancel() has been called on the batch task
    latest,            \* run_batch: the dict latest, as its items in insertion order
    inbox,             \* the websocket message received and not yet handled, () for none
    lastTick,          \* history: when Receive last stored a tick in latest, () for never
    first_flush_done,  \* run_batch: the flag first_flush_done
    saver,             \* saver: where each batch's flusher loop is
    snap,              \* saver: list(latest.items()) of the flush cycle in progress
    idx,               \* saver: position of the for loop in snap
    cycles,            \* history: flush cycles begun so far, over all batches
    saverCancel,       \* saver_task.cancel() has been called
    quotes,            \* the quotes table: a set of rows
    nextId,            \* the quotes table: next autoincrement primary key
    now,               \* datetime.utcnow(), in minutes
    writers,           \* test writers: each one's session, () outside the test
    cutoff,            \* cleanup_old_quotes: the local cutoff of each call in flight
    request,           \* convert_currency: amount, from, to, timestamp
    hpc,               \* convert_currency: where the handler is
    q,                 \* convert_currency: the local q, () for None
    inverted,          \* convert_currency: the local inverted
    response           \* convert_currency: what the caller receives

vars == << maxStreams, feed, rc, pairs, batches, sup, backoff, sleeping, fails, cancelReq,
           latest, inbox, lastTick, first_flush_done, saver, snap, idx, cycles, saverCancel,
           quotes, nextId, now, writers, cutoff, request, hpc, q, inverted, response >>

consumerVars == << maxStreams, feed, rc, pairs, batches >>
supVars      == << sup, backoff, sleeping, fails, cancelReq, latest, inbox, lastTick >>
saverVars    == << first_flush_done, saver, snap, idx, cycles, saverCancel >>
storeVars    == << quotes, nextId >>
apiVars      == << cutoff, request, hpc, q, inverted, response >>

-----------------------------------------------------------------------------
(* Bounds of the model *)

MaxPairs  == 2      \* longest list discovery returns
MaxLimit  == 2      \* largest MAX_STREAMS_PER_CONN tried
MaxSeqLen == 4      \* longest list handed to chunked on its own
MaxFails  == 2      \* most consecutive stream failures followed
MaxPrice  == 2      \* prices on the wire are "1" .. "MaxPrice"
MaxCycles == 2      \* most flush cycles begun, over all batches
MaxTime   == 1      \* the clock runs from 0 to MaxTime
MaxSeed   == 2      \* most rows in the table when a request or a cleanup starts
MaxWrites == 1      \* most rows written while a request or a cleanup is in flight
MaxAmount == 2      \* amounts asked for are 1 .. MaxAmount
MaxAge    == 2      \* seeded rows are 0 .. MaxAge minutes old, or that much past retention
MaxWriters == 4     \* writers inserting rows of one pair concurrently

(* Program constants *)

BACKOFF_FLOOR   == 1
BACKOFF_CEILING == 30
QUOTE_RETENTION_DAYS == 7
MINUTES_PER_DAY == 1440
FRESHNESS_MINUTES == 1
HTTP_OK == 200
HTTP_BAD_REQUEST == 400
HTTP_NOT_FOUND == 404

-----------------------------------------------------------------------------
(* Values *)

None       == "None"
ValueError == "ValueError"

Min(a, b) == IF a < b THEN a ELSE b

\* a float, kept exactly as the fraction n/d
Rat(k) == [n |-> k, d |-> 1]

\* x == y on floats
RatEq(x, y) == x.n * y.d = y.n * x.d

\* the price left as it is
Recip_Same(x) == x

\* 1.0 / x, for x # 0
Recip(x) == [n |-> x.d, d |-> x.n]

\* x * y
Mul(x, y) == [n |-> x.n * y.n, d |-> x.d * y.d]

Assets == << "BTC", "ETH", "BNB", "SOL" >>

\* str.lower() on the symbols the catalog holds
lower(s) ==
    CASE s = "BTCUSDT" -> "btcusdt"
      [] s = "ETHUSDT" -> "ethusdt"
      [] s = "BNBUSDT" -> "bnbusdt"
      [] s = "SOLUSDT" -> "solusdt"
      [] OTHER -> s

\* str.upper() on the symbols the catalog holds and on the currencies asked for
upper(s) ==
    CASE s = "btcusdt" -> "BTCUSDT"
      [] s = "btc" -> "BTC"
      [] s = "usdt" -> "USDT"
      [] s = "ethusdt" -> "ETHUSDT"
      [] s = "bnbusdt" -> "BNBUSDT"
      [] s = "solusdt" -> "SOLUSDT"
      [] OTHER -> s

\* one entry of fetch_spot_pairs' result: (base, quote, symbol_lc)
SpotPair(k) == << Assets[k], "USDT", lower(Assets[k] \o "USDT") >>

\* the exchange's catalog, in the order exchangeInfo lists it
Catalog == [k \in 1..MaxPairs |-> SpotPair(k)]

\* what fetch_spot_pairs can return: the filtered catalog, possibly empty
Discoverable == { SubSeq(Catalog, 1, k) : k \in 0..MaxPairs }

-----------------------------------------------------------------------------
(* chunked *)

\* a slice that takes one element too many: seq[i:j+1]
Slice_OneMore(seq, i, j) == SubSeq(seq, i + 1, Min(j + 1, Len(seq)))

\* Python's seq[i:j] for 0 <= i <= j, on a 1-based sequence
Slice(seq, i, j) == SubSeq(seq, i + 1, Min(j, Len(seq)))

RECURSIVE ChunkedFrom(_, _, _)
ChunkedFrom(seq, n, i) ==
    IF i >= Len(seq) THEN << >>
    ELSE << Slice(seq, i, i + n) >> \o ChunkedFrom(seq, n, i + n)

\* list(chunked(seq, n))
chunked(seq, n) == ChunkedFrom(seq, n, 0)

-----------------------------------------------------------------------------
(* run_batch: the locals built before the loop *)

BatchIds == DOMAIN batches

\* symbols_lc = [sym for _, _, sym in batch]
symbols_lc(batch) == [k \in DOMAIN batch |-> batch[k][3]]

\* sym_to_pair = {(b + q).upper(): (b, q) for (b, q, _) in batch}, as .get()
sym_to_pair_get(batch, sym) ==
    LET hits == { k \in DOMAIN batch : upper(batch[k][1] \o batch[k][2]) = sym }
    IN  IF hits = {} THEN None
        ELSE LET k == CHOOSE k \in hits : \A j \in hits : j <= k
             IN  << batch[k][1], batch[k][2] >>

\* float(price_str): the value, or the exception raised
PriceStrings == { "1", "2", "3" }
float(s) ==
    CASE s = "1" -> [raised |-> None, value |-> Rat(1)]
      [] s = "2" -> [raised |-> None, value |-> Rat(2)]
      [] s = "3" -> [raised |-> None, value |-> Rat(3)]
      [] OTHER -> [raised |-> ValueError, value |-> Rat(0)]

\* the frames a stream can deliver: msg.get("s"), msg.get("c")
WireSymbols == { upper(Catalog[k][3]) : k \in 1..MaxPairs } \cup { "XRPUSDT", None }
AllLevels   == { s \in PriceStrings : float(s).value.n <= MaxPrice }
OneLevel    == { s \in PriceStrings : float(s).value.n <= 1 }
Frames      == [s : WireSymbols, c : feed \cup { "abc", "", None }]

\* not x, for the values msg.get returns
Falsy(x) == x = None \/ x = ""

\* a dict that keeps the first price it was given for a key
DictSet_KeepFirst(d, key, val) ==
    IF \E k \in DOMAIN d : d[k][1] = key THEN d ELSE Append(d, << key, val >>)

\* latest[pair] = price on a dict kept as its items in insertion order
DictSet(d, key, val) ==
    IF \E k \in DOMAIN d : d[k][1] = key
    THEN [k \in DOMAIN d |-> IF d[k][1] = key THEN << key, val >> ELSE d[k]]
    ELSE Append(d, << key, val >>)

\* line 101 is reached and float() returns: the frame's price is assigned
Stored(batch, msg) ==
    /\ ~Falsy(msg.s)
    /\ ~Falsy(msg.c)
    /\ sym_to_pair_get(batch, msg.s) # None
    /\ float(msg.c).raised = None

\* the body of the async for (main.py 93-103) on one frame
Route(batch, d, msg) ==
    IF Falsy(msg.s) \/ Falsy(msg.c) THEN d
    ELSE LET pair == sym_to_pair_get(batch, msg.s)
         IN  IF pair = None THEN d
             ELSE IF float(msg.c).raised = ValueError THEN d
             ELSE DictSet(d, pair, float(msg.c).value)

-----------------------------------------------------------------------------
(* The query side at rest: no request, no cleanup call in flight *)

NoRequest == [amount |-> Rat(0), from |-> "", to |-> "", timestamp |-> << >>]

NoResponse ==
    [status |-> 0, detail |-> "", base |-> "", quote |-> "", rate |-> Rat(0),
     amount_in |-> Rat(0), amount_out |-> Rat(0), timestamp |-> 0, inverted |-> FALSE]

NoApi ==
    /\ cutoff = << >>
    /\ request = NoRequest
    /\ hpc = "none"
    /\ q = << >>
    /\ inverted = FALSE
    /\ response = NoResponse

-----------------------------------------------------------------------------
(* Initial state: the process has started, run_consumer awaits discovery *)

Started(limits, levels) ==
    /\ maxStreams \in limits
    /\ feed = levels
    /\ rc = "discover"
    /\ pairs = << >>
    /\ batches = << >>
    /\ sup = << >>
    /\ backoff = << >>
    /\ sleeping = << >>
    /\ fails = << >>
    /\ cancelReq = << >>
    /\ latest = << >>
    /\ inbox = << >>
    /\ lastTick = << >>
    /\ first_flush_done = << >>
    /\ saver = << >>
    /\ snap = << >>
    /\ idx = << >>
    /\ cycles = 0
    /\ saverCancel = << >>
    /\ quotes = {}
    /\ nextId = 1
    /\ now = 0
    /\ writers = << >>
    /\ NoApi

\* any connection limit, so that the pairs may be spread over several batches
Init == Started(1..MaxLimit, OneLevel)

\* a connection limit that keeps all pairs in one batch, every price level
InitOneBatch == Started({ MaxLimit }, AllLevels)

-----------------------------------------------------------------------------
(* run_consumer *)

\* the state of batch b's two tasks once run_batch has run to its first await:
\* the supervisor awaits the connection, the saver found latest empty and sleeps
StartBatches(bs) ==
    /\ sup' = [b \in DOMAIN bs |-> "connecting"]
    /\ backoff' = [b \in DOMAIN bs |-> BACKOFF_FLOOR]
    /\ sleeping' = [b \in DOMAIN bs |-> 0]
    /\ fails' = [b \in DOMAIN bs |-> 0]
    /\ cancelReq' = [b \in DOMAIN bs |-> FALSE]
    /\ latest' = [b \in DOMAIN bs |-> << >>]
    /\ inbox' = [b \in DOMAIN bs |-> << >>]
    /\ lastTick' = [b \in DOMAIN bs |-> << >>]
    /\ first_flush_done' = [b \in DOMAIN bs |-> FALSE]
    /\ saver' = [b \in DOMAIN bs |-> "poll"]
    /\ snap' = [b \in DOMAIN bs |-> << >>]
    /\ idx' = [b \in DOMAIN bs |-> 0]
    /\ cycles' = 0
    /\ saverCancel' = [b \in DOMAIN bs |-> FALSE]

\* fetch_spot_pairs returns; an empty list is logged and run_consumer returns,
\* otherwise the batches are cut and one task per batch is started
DiscoverPairs ==
    /\ rc = "discover"
    /\ \E found \in Discoverable :
        /\ pairs' = found
        /\ IF found = << >>
           THEN /\ rc' = "returned"
                /\ UNCHANGED << batches, supVars, saverVars >>
           ELSE /\ rc' = "gather"
                /\ batches' = chunked(found, maxStreams)
                /\ StartBatches(chunked(found, maxStreams))
    /\ UNCHANGED << apiVars, maxStreams, feed, storeVars, now, writers >>

\* fetch_spot_pairs raises (raise_for_status, timeout): run_consumer raises it
DiscoverFails ==
    /\ rc = "discover"
    /\ rc' = "failed"
    /\ UNCHANGED << apiVars, maxStreams, feed, pairs, batches, supVars, saverVars, storeVars, now, writers >>

\* the run_consumer task is cancelled: while it awaits gather, the gathering
\* future passes cancel() on to every batch task
CancelConsumer ==
    /\ \/ /\ rc = "discover"
          /\ rc' = "cancelled"
          /\ UNCHANGED cancelReq
       \/ /\ rc = "gather"
          /\ \E b \in BatchIds : ~cancelReq[b]
          /\ cancelReq' = [b \in BatchIds |-> TRUE]
          /\ UNCHANGED rc
    /\ UNCHANGED << apiVars, maxStreams, feed, pairs, batches, sup, backoff, sleeping, fails, latest,
                    inbox, lastTick, saverVars, storeVars, now, writers >>

\* await asyncio.gather(*tasks) without return_exceptions: the gathering future is
\* done as soon as one batch task has ended cancelled.  The event loop runs its
\* callbacks in the order they were queued, so by then CancelledError has been
\* thrown into every batch task.
GatherDone ==
    /\ rc = "gather"
    /\ \E b \in BatchIds : sup[b] = "done"
    /\ \A b \in BatchIds : sup[b] \in { "closing", "awaitSaver", "done" }
    /\ rc' = "cancelled"
    /\ UNCHANGED << apiVars, maxStreams, feed, pairs, batches, supVars, saverVars, storeVars, now, writers >>

-----------------------------------------------------------------------------
(* run_batch: the supervisor loop *)

\* line 112
NextBackoff(d) == Min(d * 2, BACKOFF_CEILING)

\* line 90
BackoffAtTry(d) == BACKOFF_FLOOR

\* a failure handled on state shared by all batches: every supervisor backs off
EnterBackoff_Shared(b) ==
    /\ sup' = [x \in DOMAIN sup |-> "backoff"]
    /\ sleeping' = [x \in DOMAIN sup |-> backoff[x]]
    /\ fails' = [fails EXCEPT ![b] = @ + 1]
    /\ UNCHANGED << backoff, cancelReq, latest, lastTick >>

\* a failure handler that also forgets the prices of the lost stream
EnterBackoff_Clears(b) ==
    /\ sup' = [sup EXCEPT ![b] = "backoff"]
    /\ sleeping' = [sleeping EXCEPT ![b] = backoff[b]]
    /\ fails' = [fails EXCEPT ![b] = @ + 1]
    /\ latest' = [latest EXCEPT ![b] = << >>]
    /\ UNCHANGED << backoff, cancelReq, lastTick >>

\* except Exception: await asyncio.sleep(backoff)
EnterBackoff(b) ==
    /\ sup' = [sup EXCEPT ![b] = "backoff"]
    /\ sleeping' = [sleeping EXCEPT ![b] = backoff[b]]
    /\ fails' = [fails EXCEPT ![b] = @ + 1]
    /\ UNCHANGED << backoff, cancelReq, latest, lastTick >>

\* ws_connect succeeded; the generator awaits the first frame
ConnectOk(b) ==
    /\ sup[b] = "connecting"
    /\ ~cancelReq[b]
    /\ sup' = [sup EXCEPT ![b] = "streaming"]
    /\ fails' = [fails EXCEPT ![b] = 0]
    /\ UNCHANGED << backoff, sleeping, cancelReq, latest, inbox, lastTick >>
    /\ UNCHANGED << apiVars, consumerVars, saverVars, storeVars, now, writers >>

\* ClientSession / ws_connect raised
ConnectFail(b) ==
    /\ sup[b] = "connecting"
    /\ ~cancelReq[b]
    /\ fails[b] < MaxFails
    /\ EnterBackoff(b)
    /\ UNCHANGED << inbox, apiVars, consumerVars, saverVars, storeVars, now, writers >>

\* one frame is yielded and routed
Tick(b, msg) ==
    /\ sup[b] = "streaming"
    /\ ~cancelReq[b]
    /\ latest' = [latest EXCEPT ![b] = Route(batches[b], @, msg)]
    /\ UNCHANGED << sup, backoff, sleeping, fails, cancelReq, inbox, lastTick >>
    /\ UNCHANGED << apiVars, consumerVars, saverVars, storeVars, now, writers >>

\* how a tick sequence ends: CLOSE or ERROR frame (the generator returns and line
\* 105 raises), receive timeout, a frame json.loads or the loop body raises on
StreamEndReasons == { "close", "error_frame", "idle_timeout", "bad_json", "bad_frame" }

\* a clean close taken for the end of the work: the loop is left
StreamEnd_CloseIsFinal(b, why) ==
    /\ sup[b] = "streaming"
    /\ ~cancelReq[b]
    /\ fails[b] < MaxFails
    /\ IF why = "close"
       THEN /\ sup' = [sup EXCEPT ![b] = "awaitSaver"]
            /\ saverCancel' = [saverCancel EXCEPT ![b] = TRUE]
            /\ UNCHANGED << backoff, sleeping, fails, cancelReq, latest, inbox, lastTick >>
            /\ UNCHANGED << first_flush_done, saver, snap, idx, cycles >>
       ELSE EnterBackoff(b) /\ UNCHANGED << inbox, saverVars >>
    /\ UNCHANGED << apiVars, consumerVars, storeVars, now, writers >>

StreamEnd(b, why) ==
    /\ sup[b] = "streaming"
    /\ ~cancelReq[b]
    /\ fails[b] < MaxFails
    /\ EnterBackoff(b)
    /\ UNCHANGED << inbox, apiVars, consumerVars, saverVars, storeVars, now, writers >>

\* the sleep returns: line 112, then the loop's next round up to the connection
BackoffElapsed(b) ==
    /\ sup[b] = "backoff"
    /\ ~cancelReq[b]
    /\ sup' = [sup EXCEPT ![b] = "connecting"]
    /\ backoff' = [backoff EXCEPT ![b] = BackoffAtTry(NextBackoff(@))]
    /\ sleeping' = [sleeping EXCEPT ![b] = 0]
    /\ UNCHANGED << fails, cancelReq, latest, inbox, lastTick >>
    /\ UNCHANGED << apiVars, consumerVars, saverVars, storeVars, now, writers >>

\* finally: saver_task.cancel(); await saver_task
EnterFinally(b) ==
    /\ sup' = [sup EXCEPT ![b] = "awaitSaver"]
    /\ sleeping' = [sleeping EXCEPT ![b] = 0]
    /\ saverCancel' = [saverCancel EXCEPT ![b] = TRUE]
    /\ UNCHANGED << backoff, fails, cancelReq, latest, inbox, lastTick >>
    /\ UNCHANGED << first_flush_done, saver, snap, idx, cycles >>

\* CancelledError is thrown into subscribe_tickers: its two async with blocks
\* close the websocket and the client session before it reaches run_batch
StreamCancelled(b) ==
    /\ sup[b] \in { "connecting", "streaming" }
    /\ cancelReq[b]
    /\ sup' = [sup EXCEPT ![b] = "closing"]
    /\ UNCHANGED << backoff, sleeping, fails, cancelReq, latest, inbox, lastTick >>
    /\ UNCHANGED << apiVars, consumerVars, saverVars, storeVars, now, writers >>

\* the generator has unwound: except asyncio.CancelledError: break, then finally
StreamClosed(b) ==
    /\ sup[b] = "closing"
    /\ EnterFinally(b)
    /\ UNCHANGED << apiVars, consumerVars, storeVars, now, writers >>

\* the cancellation swallowed by the handler: the loop goes on to reconnect
BackoffCancelled_Swallowed(b) ==
    /\ sup[b] = "backoff"
    /\ cancelReq[b]
    /\ sup' = [sup EXCEPT ![b] = "connecting"]
    /\ backoff' = [backoff EXCEPT ![b] = BACKOFF_FLOOR]
    /\ sleeping' = [sleeping EXCEPT ![b] = 0]
    /\ UNCHANGED << fails, cancelReq, latest, inbox, lastTick >>
    /\ UNCHANGED << apiVars, consumerVars, saverVars, storeVars, now, writers >>

\* CancelledError is thrown into the sleep of the except Exception handler: no
\* except clause of the try applies, the finally runs
BackoffCancelled(b) ==
    /\ sup[b] = "backoff"
    /\ cancelReq[b]
    /\ EnterFinally(b)
    /\ UNCHANGED << apiVars, consumerVars, storeVars, now, writers >>

\* await saver_task returns: the batch task ends
SupervisorDone(b) ==
    /\ sup[b] = "awaitSaver"
    /\ saver[b] = "done"
    /\ sup' = [sup EXCEPT ![b] = "done"]
    /\ UNCHANGED << backoff, sleeping, fails, cancelReq, latest, inbox, lastTick >>
    /\ UNCHANGED << apiVars, consumerVars, saverVars, storeVars, now, writers >>

-----------------------------------------------------------------------------
(* db/crud.py *)

\* a write that is skipped when the pair's newest row already has this price
save_quote_IfChanged(table, id, base, quote, price, t) ==
    LET mine == { r \in table : r.base = base /\ r.quote = quote }
    IN  IF \E m \in mine : m.price = price /\ \A r \in mine : r.id <= m.id
        THEN table
        ELSE table \cup { [id |-> id, base |-> base, quote |-> quote, price |-> price,
                           timestamp |-> t] }

\* a write that replaces the pair's rows: one row per pair
save_quote_Upsert(table, id, base, quote, price, t) ==
    { r \in table : r.base # base \/ r.quote # quote }
        \cup { [id |-> id, base |-> base, quote |-> quote, price |-> price,
                 timestamp |-> t] }

\* save_quote: Quote(base, quote, price, timestamp=utcnow()), add, commit
save_quote(table, id, base, quote, price, t) ==
    table \cup { [id |-> id, base |-> base, quote |-> quote, price |-> price,
                  timestamp |-> t] }

\* timedelta(days=settings.QUOTE_RETENTION_DAYS), in minutes
RetentionWindow == QUOTE_RETENTION_DAYS * MINUTES_PER_DAY

\* a cutoff with no retention window
cutoff_at_Now(t) == t

\* cutoff = datetime.utcnow() - timedelta(days=settings.QUOTE_RETENTION_DAYS)
cutoff_at(t) == t - RetentionWindow

\* a delete that also takes the rows exactly at the cutoff
delete_before_Inclusive(table, c) == { r \in table : ~(r.timestamp <= c) }

\* delete(Quote).where(Quote.timestamp < cutoff)
delete_before(table, c) == { r \in table : ~(r.timestamp < c) }

\* cleanup_old_quotes: delete(Quote).where(Quote.timestamp < cutoff), commit
cleanup_old_quotes(table, t) ==
    delete_before(table, cutoff_at(t))

-----------------------------------------------------------------------------
(* run_batch.saver: the flusher loop *)

\* async with AsyncSessionLocal(): for ... in list(latest.items()): the snapshot
\* is taken and the first save_quote awaits its commit
BeginFlush(b) ==
    /\ saver' = [saver EXCEPT ![b] = "write"]
    /\ snap' = [snap EXCEPT ![b] = latest[b]]
    /\ idx' = [idx EXCEPT ![b] = 1]
    /\ cycles' = cycles + 1
    /\ UNCHANGED << first_flush_done, saverCancel >>

\* the flag set whether or not the writes went through
EndFlush_SwitchAlways(b, ok) ==
    /\ first_flush_done' = [first_flush_done EXCEPT ![b] = TRUE]
    /\ saver' = [saver EXCEPT ![b] = IF first_flush_done[b] THEN "sleep" ELSE "poll"]
    /\ snap' = [snap EXCEPT ![b] = << >>]
    /\ idx' = [idx EXCEPT ![b] = 0]
    /\ UNCHANGED << cycles, saverCancel >>

\* no except clause: a store error ends the saver task
EndFlush_Uncaught(b, ok) ==
    /\ first_flush_done' = [first_flush_done EXCEPT ![b] = @ \/ ok]
    /\ saver' = [saver EXCEPT ![b] = IF ~ok THEN "done"
                                      ELSE IF first_flush_done[b] THEN "sleep"
                                      ELSE "poll"]
    /\ snap' = [snap EXCEPT ![b] = << >>]
    /\ idx' = [idx EXCEPT ![b] = 0]
    /\ UNCHANGED << cycles, saverCancel >>

\* after a flush attempt, done or failed: the cold-start branch sleeps 0.01 and
\* continues, the periodic branch goes round to sleep the interval
EndFlush(b, ok) ==
    /\ first_flush_done' = [first_flush_done EXCEPT ![b] = @ \/ ok]
    /\ saver' = [saver EXCEPT ![b] = IF first_flush_done[b] THEN "sleep" ELSE "poll"]
    /\ snap' = [snap EXCEPT ![b] = << >>]
    /\ idx' = [idx EXCEPT ![b] = 0]
    /\ UNCHANGED << cycles, saverCancel >>

\* asyncio.sleep(0.01) returns: lines 57-58, or line 71 once the first flush is done
PollElapsed(b) ==
    /\ saver[b] = "poll"
    /\ ~saverCancel[b]
    /\ IF first_flush_done[b]
       THEN /\ saver' = [saver EXCEPT ![b] = "sleep"]
            /\ UNCHANGED << first_flush_done, snap, idx, cycles, saverCancel >>
       ELSE IF latest[b] # << >>
       THEN cycles < MaxCycles /\ BeginFlush(b)
       ELSE UNCHANGED saverVars
    /\ UNCHANGED << apiVars, consumerVars, supVars, storeVars, now, writers >>

\* asyncio.sleep(QUOTE_SAVE_INTERVAL) returns: lines 72-77
IntervalElapsed(b) ==
    /\ saver[b] = "sleep"
    /\ ~saverCancel[b]
    /\ IF latest[b] # << >>
       THEN cycles < MaxCycles /\ BeginFlush(b)
       ELSE UNCHANGED saverVars
    /\ UNCHANGED << apiVars, consumerVars, supVars, storeVars, now, writers >>

\* a for loop over latest itself: the entry is read when it is written
SaveQuote_Live(b) ==
    /\ saver[b] = "write"
    /\ ~saverCancel[b]
    /\ LET item == latest[b][idx[b]]
       IN  quotes' = save_quote(quotes, nextId, item[1][1], item[1][2], item[2], now)
    /\ nextId' = nextId + 1
    /\ idx' = [idx EXCEPT ![b] = @ + 1]
    /\ saver' = [saver EXCEPT ![b] = IF idx[b] < Len(latest[b]) THEN "write"
                                      ELSE "cleanup"]
    /\ UNCHANGED << first_flush_done, snap, cycles, saverCancel >>
    /\ UNCHANGED << apiVars, consumerVars, supVars, now, writers >>

\* the commit of one save_quote returns: the loop goes to the next entry, or to
\* cleanup_old_quotes after the last one
SaveQuote(b) ==
    /\ saver[b] = "write"
    /\ ~saverCancel[b]
    /\ LET item == snap[b][idx[b]]
       IN  quotes' = save_quote(quotes, nextId, item[1][1], item[1][2], item[2], now)
    /\ nextId' = nextId + 1
    /\ idx' = [idx EXCEPT ![b] = @ + 1]
    /\ saver' = [saver EXCEPT ![b] = IF idx[b] < Len(snap[b]) THEN "write"
                                      ELSE "cleanup"]
    /\ UNCHANGED << first_flush_done, snap, cycles, saverCancel >>
    /\ UNCHANGED << apiVars, consumerVars, supVars, now, writers >>

\* cleanup_old_quotes returns: the session is closed and the cycle is complete
Cleanup(b) ==
    /\ saver[b] = "cleanup"
    /\ ~saverCancel[b]
    /\ quotes' = cleanup_old_quotes(quotes, now)
    /\ EndFlush(b, TRUE)
    /\ UNCHANGED << nextId, apiVars, consumerVars, supVars, now, writers >>

\* save_quote or cleanup_old_quotes raises (store unavailable): except Exception
\* logs it; rows committed earlier in the cycle stay, the pending one is dropped
FlushFails(b) ==
    /\ saver[b] \in { "write", "cleanup" }
    /\ ~saverCancel[b]
    /\ EndFlush(b, FALSE)
    /\ UNCHANGED << apiVars, consumerVars, supVars, storeVars, now, writers >>

\* CancelledError is thrown into the saver: out of a sleep the task ends, inside
\* the async with the session is closed first
SaverCancelled(b) ==
    /\ saverCancel[b]
    /\ saver[b] \in { "poll", "sleep", "write", "cleanup" }
    /\ saver' = [saver EXCEPT ![b] = IF @ \in { "poll", "sleep" } THEN "done"
                                      ELSE "closing"]
    /\ UNCHANGED << first_flush_done, snap, idx, cycles, saverCancel >>
    /\ UNCHANGED << apiVars, consumerVars, supVars, storeVars, now, writers >>

\* the session is closed: the saver task ends cancelled
SaverClosed(b) ==
    /\ saver[b] = "closing"
    /\ saver' = [saver EXCEPT ![b] = "done"]
    /\ UNCHANGED << first_flush_done, snap, idx, cycles, saverCancel >>
    /\ UNCHANGED << apiVars, consumerVars, supVars, storeVars, now, writers >>

-----------------------------------------------------------------------------
(* The clock *)

Advance ==
    /\ now < MaxTime
    /\ now' = now + 1
    /\ UNCHANGED << apiVars, consumerVars, supVars, saverVars, storeVars, writers >>

-----------------------------------------------------------------------------
(* The consumer process *)

Next ==
    \/ DiscoverPairs
    \/ DiscoverFails
    \/ CancelConsumer
    \/ GatherDone
    \/ \E b \in BatchIds : ConnectOk(b)
    \/ \E b \in BatchIds : ConnectFail(b)
    \/ \E b \in BatchIds : \E msg \in Frames : Tick(b, msg)
    \/ \E b \in BatchIds : \E why \in StreamEndReasons : StreamEnd(b, why)
    \/ \E b \in BatchIds : BackoffElapsed(b)
    \/ \E b \in BatchIds : StreamCancelled(b)
    \/ \E b \in BatchIds : StreamClosed(b)
    \/ \E b \in BatchIds : BackoffCancelled(b)
    \/ \E b \in BatchIds : SupervisorDone(b)
    \/ \E b \in BatchIds : PollElapsed(b)
    \/ \E b \in BatchIds : IntervalElapsed(b)
    \/ \E b \in BatchIds : SaveQuote(b)
    \/ \E b \in BatchIds : Cleanup(b)
    \/ \E b \in BatchIds : FlushFails(b)
    \/ \E b \in BatchIds : SaverCancelled(b)
    \/ \E b \in BatchIds : SaverClosed(b)
    \/ Advance

Spec == Init /\ [][Next]_vars

\* the same process with all pairs on one connection and every price level
SpecOneBatch == InitOneBatch /\ [][Next]_vars

\* What the event loop guarantees: a timer that is due fires, a CancelledError
\* that was requested is thrown, a close that was started completes and a task
\* that can be resumed is resumed.  Nothing is assumed of the exchange, the
\* store or the caller.
Scheduled(b) ==
    /\ WF_vars(b \in BatchIds /\ BackoffElapsed(b))
    /\ WF_vars(b \in BatchIds /\ StreamCancelled(b))
    /\ WF_vars(b \in BatchIds /\ StreamClosed(b))
    /\ WF_vars(b \in BatchIds /\ BackoffCancelled(b))
    /\ WF_vars(b \in BatchIds /\ SupervisorDone(b))
    /\ WF_vars(b \in BatchIds /\ SaverCancelled(b))
    /\ WF_vars(b \in BatchIds /\ SaverClosed(b))

FairSpec == Init /\ [][Next]_vars /\ \A b \in 1..MaxPairs : Scheduled(b)

-----------------------------------------------------------------------------
(* chunked on its own: any list, any limit *)

CatalogEntries == { Catalog[k] : k \in 1..MaxPairs }

Lists == UNION { [1..n -> CatalogEntries] : n \in 0..MaxSeqLen }

InitBatcher ==
    /\ maxStreams \in 1..MaxSeqLen
    /\ feed = OneLevel
    /\ rc = "chunk"
    /\ pairs \in Lists
    /\ batches = << >>
    /\ sup = << >>
    /\ backoff = << >>
    /\ sleeping = << >>
    /\ fails = << >>
    /\ cancelReq = << >>
    /\ latest = << >>
    /\ inbox = << >>
    /\ lastTick = << >>
    /\ first_flush_done = << >>
    /\ saver = << >>
    /\ snap = << >>
    /\ idx = << >>
    /\ cycles = 0
    /\ saverCancel = << >>
    /\ quotes = {}
    /\ nextId = 1
    /\ now = 0
    /\ writers = << >>
    /\ NoApi

\* batches = list(chunked(pairs, settings.MAX_STREAMS_PER_CONN))
Chunk ==
    /\ rc = "chunk"
    /\ batches' = chunked(pairs, maxStreams)
    /\ rc' = "chunked"
    /\ UNCHANGED << apiVars, maxStreams, feed, pairs, supVars, saverVars, storeVars, now, writers >>

NextBatcher == Chunk

SpecBatcher == InitBatcher /\ [][NextBatcher]_vars

-----------------------------------------------------------------------------
(* db/crud.py: the reads *)

\* ... order_by(Quote.timestamp.desc()).limit(1) over the rows in mine: the rows
\* the database may return (any of the newest when several share a timestamp)
Newest(mine) == { r \in mine : \A o \in mine : o.timestamp <= r.timestamp }

\* get_latest_quote
get_latest_quote(table, base, quote) ==
    Newest({ r \in table : r.base = base /\ r.quote = quote })

\* a lookup that takes the newest row after ts when there is none up to ts
get_quote_at_Nearest(table, base, quote, ts) ==
    IF \E r \in table : r.base = base /\ r.quote = quote /\ r.timestamp <= ts
    THEN Newest({ r \in table : r.base = base /\ r.quote = quote /\ r.timestamp <= ts })
    ELSE Newest({ r \in table : r.base = base /\ r.quote = quote })

\* get_quote_at
get_quote_at(table, base, quote, ts) ==
    Newest({ r \in table : r.base = base /\ r.quote = quote /\ r.timestamp <= ts })

\* scalar_one_or_none(): the values the await can give to q, () standing for None
Fetched(rows) == IF rows = {} THEN { << >> } ELSE { << r >> : r \in rows }

-----------------------------------------------------------------------------
(* The table a request or a cleanup finds *)

SeedPairs  == { << "BTC", "USDT" >>, << "USDT", "BTC" >> }
SeedPrices == { Rat(0), Rat(MaxPrice) }

\* timestamps of rows written in the last minutes
RecentTimes == { 0 - a : a \in 0..MaxAge }

\* timestamps of rows at the retention boundary and older
ExpiringTimes == { 0 - RetentionWindow - a : a \in 0..MaxAge }

RowContents(times) == [pair : SeedPairs, price : SeedPrices, timestamp : times]

\* the table holding the rows f[1], f[2], ... with primary keys 1, 2, ...
TableOf(f) ==
    { [id |-> k, base |-> f[k].pair[1], quote |-> f[k].pair[2], price |-> f[k].price,
       timestamp |-> f[k].timestamp] : k \in DOMAIN f }

SeedTables(times) ==
    UNION { { TableOf(f) : f \in [1..n -> RowContents(times)] } : n \in 0..MaxSeed }

\* some flusher's save_quote commits a row while a request or a cleanup is in flight
ConcurrentSave ==
    /\ nextId <= MaxSeed + MaxWrites
    /\ \E pair \in SeedPairs, price \in SeedPrices :
          quotes' = save_quote(quotes, nextId, pair[1], pair[2], price, now)
    /\ nextId' = nextId + 1
    /\ UNCHANGED << apiVars, consumerVars, supVars, saverVars, now, writers >>

-----------------------------------------------------------------------------
(* api/routes.py: convert_currency *)

RequestPairs == { << "btc", "USDT" >>, << "USDT", "btc" >>, << "ETH", "usdt" >> }

Requests ==
    { [amount |-> Rat(a), from |-> p[1], to |-> p[2], timestamp |-> ts] :
        a \in 1..MaxAmount, p \in RequestPairs,
        ts \in { << >> } \cup { << t >> : t \in RecentTimes } }

\* the currency as it was typed
base_of_Raw(req) == req.from

\* lines 22-23
base_of(req) == upper(req.from)
quote_of(req) == upper(req.to)

\* lines 26-29 and 36-39: if timestamp: get_quote_at(...) else: get_latest_quote(...)
lookup(table, base, quote, timestamp) ==
    IF timestamp # << >> THEN get_quote_at(table, base, quote, timestamp[1])
    ELSE get_latest_quote(table, base, quote)

\* raise HTTPException(status_code=..., detail=...)
HTTPException(status_code, detail) ==
    [NoResponse EXCEPT !.status = status_code, !.detail = detail]

\* failures that tell the caller no more than "bad request"
Failure_OneMessage(kind) ==
    CASE kind = "PairNotAvailable" ->
            HTTPException(HTTP_NOT_FOUND, "Conversion not available for this pair")
      [] kind = "ZeroPriceInversion" ->
            HTTPException(HTTP_BAD_REQUEST, "bad_request")
      [] kind = "StaleQuote" ->
            HTTPException(HTTP_BAD_REQUEST, "bad_request")

\* the three raise statements of the handler: lines 47, 42 and 52
Failure(kind) ==
    CASE kind = "PairNotAvailable" ->
            HTTPException(HTTP_NOT_FOUND, "Conversion not available for this pair")
      [] kind = "ZeroPriceInversion" ->
            HTTPException(HTTP_BAD_REQUEST, "invalid_quote_zero_price")
      [] kind = "StaleQuote" ->
            HTTPException(HTTP_BAD_REQUEST, "quotes_outdated")

\* lines 54-63
Converted(req, obj, inv) ==
    [status |-> HTTP_OK, detail |-> "", base |-> base_of(req), quote |-> quote_of(req),
     rate |-> obj.price, amount_in |-> req.amount,
     amount_out |-> Mul(req.amount, obj.price), timestamp |-> obj.timestamp,
     inverted |-> inv]

\* datetime.utcnow() - q.timestamp > timedelta(minutes=1)
Outdated(obj, t) == t - obj.timestamp > FRESHNESS_MINUTES

\* a freshness check applied to historical requests too
Finish_AlwaysFresh(qq, inv) ==
    /\ response' =
          IF qq = << >>
          THEN Failure("PairNotAvailable")
          ELSE IF Outdated(qq[1], now)
          THEN Failure("StaleQuote")
          ELSE Converted(request, qq[1], inv)
    /\ hpc' = "responded"

\* a handler that answers not-found for a stale row
Finish_StaleIsMissing(qq, inv) ==
    /\ response' =
          IF qq = << >> \/ (request.timestamp = << >> /\ Outdated(qq[1], now))
          THEN Failure("PairNotAvailable")
          ELSE Converted(request, qq[1], inv)
    /\ hpc' = "responded"

\* lines 46-63, with q and inverted as they are by then
Finish(qq, inv) ==
    /\ response' =
          IF qq = << >>
          THEN Failure("PairNotAvailable")
          ELSE IF request.timestamp = << >> /\ Outdated(qq[1], now)
          THEN Failure("StaleQuote")
          ELSE Converted(request, qq[1], inv)
    /\ hpc' = "responded"

\* the first query is executed and its result assigned to q
ExecDirect ==
    /\ hpc = "direct"
    /\ q' \in Fetched(lookup(quotes, base_of(request), quote_of(request), request.timestamp))
    /\ hpc' = "afterDirect"
    /\ UNCHANGED << cutoff, request, inverted, response >>
    /\ UNCHANGED << consumerVars, supVars, saverVars, storeVars, now, writers >>

\* lines 31-34: with a row the handler goes on to line 46, without one it sends
\* the query for the swapped pair
AfterDirect ==
    /\ hpc = "afterDirect"
    /\ IF q = << >>
       THEN hpc' = "inverse" /\ UNCHANGED response
       ELSE Finish(q, inverted)
    /\ UNCHANGED << cutoff, request, q, inverted >>
    /\ UNCHANGED << consumerVars, supVars, saverVars, storeVars, now, writers >>

\* the second query is executed and its result assigned to q
ExecInverse ==
    /\ hpc = "inverse"
    /\ q' \in Fetched(lookup(quotes, quote_of(request), base_of(request), request.timestamp))
    /\ hpc' = "afterInverse"
    /\ UNCHANGED << cutoff, request, inverted, response >>
    /\ UNCHANGED << consumerVars, supVars, saverVars, storeVars, now, writers >>

\* an inversion without the test of line 41: the division raises, the caller gets a
\* server error
AfterInverse_Unchecked ==
    /\ hpc = "afterInverse"
    /\ IF q # << >> /\ q[1].price.n = 0
       THEN /\ response' = HTTPException(500, "Internal Server Error")
            /\ hpc' = "responded"
            /\ UNCHANGED << q, inverted >>
       ELSE IF q # << >>
       THEN LET obj == [q[1] EXCEPT !.price = Recip(@)]
            IN  /\ q' = << obj >>
                /\ inverted' = TRUE
                /\ Finish(<< obj >>, TRUE)
       ELSE Finish(q, inverted) /\ UNCHANGED << q, inverted >>
    /\ UNCHANGED << cutoff, request >>
    /\ UNCHANGED << consumerVars, supVars, saverVars, storeVars, now, writers >>

\* lines 40-63: a row of the swapped pair is rejected when its price is 0,
\* otherwise q.price is overwritten with its reciprocal on the loaded object
AfterInverse ==
    /\ hpc = "afterInverse"
    /\ IF q # << >> /\ q[1].price.n = 0
       THEN /\ response' = Failure("ZeroPriceInversion")
            /\ hpc' = "responded"
            /\ UNCHANGED << q, inverted >>
       ELSE IF q # << >>
       THEN LET obj == [q[1] EXCEPT !.price = Recip(@)]
            IN  /\ q' = << obj >>
                /\ inverted' = TRUE
                /\ Finish(<< obj >>, TRUE)
       ELSE Finish(q, inverted) /\ UNCHANGED << q, inverted >>
    /\ UNCHANGED << cutoff, request >>
    /\ UNCHANGED << consumerVars, supVars, saverVars, storeVars, now, writers >>

\* a session that flushes and commits its modified object when it is closed
session_close_Commits(table, loaded) ==
    IF loaded = << >> THEN table
    ELSE { IF r.id = loaded[1].id THEN loaded[1] ELSE r : r \in table }

\* db/session.py: leaving async with AsyncSessionLocal() closes the session; what
\* was changed on a loaded object and never flushed is discarded
session_close(table, loaded) == table

\* get_session resumes after the response (or the exception) and closes the session
CloseSession ==
    /\ hpc = "responded"
    /\ quotes' = session_close(quotes, q)
    /\ hpc' = "closed"
    /\ UNCHANGED << cutoff, request, q, inverted, response, nextId >>
    /\ UNCHANGED << consumerVars, supVars, saverVars, now, writers >>

\* a request arrives at a table that holds any rows of the last minutes
InitResolver ==
    /\ maxStreams = MaxLimit
    /\ feed = OneLevel
    /\ rc = "api"
    /\ pairs = << >>
    /\ batches = << >>
    /\ sup = << >>
    /\ backoff = << >>
    /\ sleeping = << >>
    /\ fails = << >>
    /\ cancelReq = << >>
    /\ latest = << >>
    /\ inbox = << >>
    /\ lastTick = << >>
    /\ first_flush_done = << >>
    /\ saver = << >>
    /\ snap = << >>
    /\ idx = << >>
    /\ cycles = 0
    /\ saverCancel = << >>
    /\ quotes \in SeedTables(RecentTimes)
    /\ nextId = Cardinality(quotes) + 1
    /\ now = 0
    /\ writers = << >>
    /\ cutoff = << >>
    /\ request \in Requests
    /\ hpc = "direct"
    /\ q = << >>
    /\ inverted = FALSE
    /\ response = NoResponse

NextResolver ==
    \/ ExecDirect
    \/ AfterDirect
    \/ ExecInverse
    \/ AfterInverse
    \/ CloseSession
    \/ ConcurrentSave
    \/ Advance

SpecResolver == InitResolver /\ [][NextResolver]_vars

-----------------------------------------------------------------------------
(* db/crud.py: cleanup_old_quotes among concurrent writes *)

\* line 23: the cutoff is computed, the DELETE is sent
CleanupBegin ==
    /\ cutoff = << >>
    /\ cutoff' = << cutoff_at(now) >>
    /\ UNCHANGED << request, hpc, q, inverted, response >>
    /\ UNCHANGED << consumerVars, supVars, saverVars, storeVars, now, writers >>

\* lines 24-26: the DELETE is executed and committed
CleanupDelete ==
    /\ cutoff # << >>
    /\ quotes' = delete_before(quotes, cutoff[1])
    /\ cutoff' = << >>
    /\ UNCHANGED << request, hpc, q, inverted, response, nextId >>
    /\ UNCHANGED << consumerVars, supVars, saverVars, now, writers >>

\* a table with rows of the last minutes and rows around the retention boundary
InitStore ==
    /\ maxStreams = MaxLimit
    /\ feed = OneLevel
    /\ rc = "store"
    /\ pairs = << >>
    /\ batches = << >>
    /\ sup = << >>
    /\ backoff = << >>
    /\ sleeping = << >>
    /\ fails = << >>
    /\ cancelReq = << >>
    /\ latest = << >>
    /\ inbox = << >>
    /\ lastTick = << >>
    /\ first_flush_done = << >>
    /\ saver = << >>
    /\ snap = << >>
    /\ idx = << >>
    /\ cycles = 0
    /\ saverCancel = << >>
    /\ quotes \in SeedTables(RecentTimes \cup ExpiringTimes)
    /\ nextId = Cardinality(quotes) + 1
    /\ now = 0
    /\ writers = << >>
    /\ NoApi

NextStore ==
    \/ CleanupBegin
    \/ CleanupDelete
    \/ ConcurrentSave
    \/ Advance

SpecStore == InitStore /\ [][NextStore]_vars

-----------------------------------------------------------------------------
(* Properties *)

\* the supervisor has left its loop for good
Stopped(b) == sup[b] \in { "closing", "awaitSaver", "done" }

(* C1: after K >= 1 consecutive stream failures with no successful connection in
   between, the delay slept before attempt K+1 is min(2^K, 30), and after a
   successful connection the delay is back at the floor 1. *)
C1_DelayDoubles ==
    \A b \in BatchIds :
        /\ sup[b] = "backoff" => sleeping[b] = Min(2 ^ fails[b], BACKOFF_CEILING)
        /\ sup[b] = "streaming" => backoff[b] = BACKOFF_FLOOR

(* C2: whenever a batch's tick sequence ends, for whatever reason, or the
   connection attempt raises, the supervisor goes to backoff, and from backoff to
   a fresh connection attempt; it leaves the loop only when cancelled, so every
   stream end is eventually followed by a new connection attempt. *)
C2_StreamEndReconnects ==
    /\ [][\A b \in BatchIds :
            /\ (sup[b] = "streaming" /\ sup'[b] # "streaming")
                  => (sup'[b] = "backoff" \/ cancelReq[b])
            /\ (sup[b] = "connecting" /\ sup'[b] \notin { "connecting", "streaming" })
                  => (sup'[b] = "backoff" \/ cancelReq[b])
            /\ (sup[b] = "backoff" /\ sup'[b] # "backoff")
                  => (sup'[b] = "connecting" \/ cancelReq[b])
            /\ Stopped(b)' => cancelReq[b]]_vars
    /\ \A b \in 1..MaxPairs :
            (b \in BatchIds /\ sup[b] = "backoff")
               ~> (b \in BatchIds /\ (sup[b] = "connecting" \/ cancelReq[b]))

\* a stream has failed, the sleep is over and the next attempt is under way
C2_Witness ==
    \E b \in BatchIds : sup[b] = "connecting" /\ fails[b] >= 1 /\ ~cancelReq[b]

(* C3: once a cancellation has reached a batch's supervisor, in whatever state,
   the supervisor starts no connection attempt and finishes no backoff sleep, and
   it reaches its terminal state, which it never leaves. *)
C3_CancelStops ==
    /\ [][\A b \in BatchIds :
            cancelReq[b] =>
                /\ sup'[b] = "connecting" => sup[b] = "connecting"
                /\ sup'[b] = "streaming" => sup[b] = "streaming"
                /\ sup[b] = "backoff" => sup'[b] \in { "backoff", "awaitSaver" }
                /\ backoff'[b] = backoff[b]
                /\ sup[b] = "done" => sup'[b] = "done"]_vars
    /\ \A b \in 1..MaxPairs :
            (b \in BatchIds /\ cancelReq[b]) ~> (b \in BatchIds /\ sup[b] = "done")

\* a supervisor that was cancelled after a failed attempt has ended, its saver too
C3_Witness ==
    \E b \in BatchIds :
        cancelReq[b] /\ sup[b] = "done" /\ saver[b] = "done" /\ fails[b] >= 1

(* C4: when run_consumer completes after a cancellation, every batch unit has
   stopped: no supervisor is connecting, streaming or backing off, and no flusher
   can write another row (its saver task has been cancelled). *)
C4_AllStoppedAtCompletion ==
    rc = "cancelled" =>
        \A b \in BatchIds : Stopped(b) /\ saverCancel[b]

(* C5: when discovery yields an empty pair list, run_consumer starts no batch and
   ends with a failure the caller can observe, not with a normal return. *)
C5_EmptyDiscoveryIsFatal ==
    (pairs = << >> /\ rc \notin { "discover", "cancelled" }) =>
        (batches = << >> /\ rc = "failed")

\* the row save_quote writes for entry k of batch b's snapshot
RowOf(r, b, k) ==
    /\ r.base = snap[b][k][1][1]
    /\ r.quote = snap[b][k][1][2]
    /\ r.price = snap[b][k][2]

\* this step commits one new row, for the entry the for loop of batch b is at
WritesEntry(b) ==
    /\ Cardinality(quotes') = Cardinality(quotes) + 1
    /\ \E r \in quotes' \ quotes : RowOf(r, b, idx[b]) /\ r.timestamp = now

(* C7: cold start.  While no flush has succeeded the flusher polls and writes
   nothing as long as latest is empty; at the first poll that finds latest
   non-empty it snapshots all of it and writes one row per entry, then runs the
   cleanup, and only then sets first_flush_done, which is never reset. *)
C7_ColdStart ==
    [][\A b \in BatchIds :
        /\ first_flush_done[b] => first_flush_done'[b]
        /\ (~first_flush_done[b] /\ first_flush_done'[b]) =>
              /\ saver[b] = "cleanup"
              /\ snap[b] # << >>
              /\ \A k \in DOMAIN snap[b] : \E r \in quotes : RowOf(r, b, k)
              /\ quotes' = cleanup_old_quotes(quotes, now)
        /\ (~first_flush_done[b] /\ saver[b] = "poll" /\ latest[b] = << >>) =>
              saver'[b] \in { "poll", "done" }
        /\ (~first_flush_done[b] /\ saver[b] = "poll"
               /\ saver'[b] \notin { "poll", "done" }) =>
              /\ saver'[b] = "write"
              /\ snap'[b] = latest[b]
              /\ idx'[b] = 1
        /\ (~first_flush_done[b] /\ saver[b] = "write" /\ idx'[b] = idx[b] + 1) =>
              WritesEntry(b)
        /\ (~first_flush_done[b] /\ saver[b] = "write" /\ saver'[b] = "cleanup") =>
              idx[b] = Len(snap[b])]_vars

\* the first flush wrote two entries in one cycle and the flusher sleeps the interval
C7_Witness ==
    \E b \in BatchIds :
        /\ first_flush_done[b]
        /\ saver[b] = "sleep"
        /\ cycles = 1
        /\ Cardinality(quotes) = 2

(* C8: steady state.  After each flush interval the flusher snapshots every pair
   that has a price and writes each of them as a new row, whether or not the price
   changed: a completed cycle has added one row per pair of its snapshot. *)
C8_SteadyRewrites ==
    /\ [][\A b \in BatchIds :
            first_flush_done[b] =>
                /\ (saver[b] = "sleep" /\ saver'[b] # "sleep") =>
                      \/ saver'[b] = "done"
                      \/ saver'[b] = "write" /\ snap'[b] = latest[b] /\ idx'[b] = 1
                /\ (saver[b] = "write" /\ idx'[b] = idx[b] + 1) => WritesEntry(b)
                /\ (saver[b] = "write" /\ saver'[b] = "cleanup") =>
                      idx[b] = Len(snap[b])]_vars
    /\ [](\A b \in BatchIds :
            (Len(batches) = 1 /\ saver[b] = "cleanup") =>
                \A k \in DOMAIN snap[b] :
                    \E r \in quotes :
                        r.id = nextId - Len(snap[b]) + k - 1 /\ RowOf(r, b, k))

\* two pairs, each written by the first flush and again by a periodic one: one
\* with the price it had, the other with a new price
C8_Witness ==
    \E b \in BatchIds :
        /\ first_flush_done[b]
        /\ saver[b] = "sleep"
        /\ Cardinality(quotes) = 4
        /\ \E q1, q2 \in quotes :
              /\ q1.id < q2.id /\ q1.base = q2.base /\ q1.price = q2.price
        /\ \E q1, q2 \in quotes :
              /\ q1.id < q2.id /\ q1.base = q2.base /\ q1.price # q2.price

(* C9: a failed store write or cleanup never stops ingestion.  A flush attempt
   that ends, failed or not, leaves the flusher waiting for its next interval and
   leaves the supervisor's state, its backoff and latest as they were; the saver
   task ends only when its supervisor was cancelled. *)
C9_FlushFailureNotFatal ==
    /\ [][\A b \in BatchIds :
            (saver[b] \in { "write", "cleanup" } /\ ~saverCancel[b]
                /\ saver'[b] \notin { "write", "cleanup" }) =>
                /\ saver'[b] \in { "poll", "sleep" }
                /\ sup'[b] = sup[b]
                /\ backoff'[b] = backoff[b]
                /\ latest'[b] = latest[b]]_vars
    /\ [](\A b \in BatchIds :
            /\ saver[b] \in { "closing", "done" } => saverCancel[b]
            /\ saverCancel[b] => cancelReq[b])

\* the first flush attempt failed, the second one succeeded, the stream is up
C9_Witness ==
    \E b \in BatchIds :
        /\ first_flush_done[b]
        /\ cycles = 2
        /\ saver[b] = "poll"
        /\ sup[b] = "streaming"

\* what belongs to batch b alone
Local(b) ==
    << sup[b], backoff[b], sleeping[b], fails[b], latest[b],
       first_flush_done[b], saver[b], snap[b], idx[b] >>

(* C10: batch isolation.  No step changes the supervisor state, backoff, latest or
   flusher phase of two batches: what one batch's stream or store failures change
   is that batch's own state only. *)
C10_BatchIsolation ==
    [][\A a, b \in BatchIds :
          (a # b /\ Local(a)' # Local(a)) => Local(b)' = Local(b)]_vars

\* one batch fails on every attempt and never saw a tick; the other streams and
\* has completed its first flush
C10_Witness ==
    \E a, b \in BatchIds :
        /\ a # b
        /\ sup[a] = "backoff" /\ fails[a] = MaxFails /\ latest[a] = << >>
        /\ sup[b] = "streaming" /\ first_flush_done[b] /\ saver[b] = "sleep"

\* the batches joined end to end
RECURSIVE Concat(_)
Concat(ss) == IF ss = << >> THEN << >> ELSE Head(ss) \o Concat(Tail(ss))

CeilDiv(a, b) == (a + b - 1) \div b

(* C6: for a list of N pairs and a limit M >= 1, chunked yields ceil(N/M) batches,
   batch k holding elements [k*M, (k+1)*M) of the list: every batch but the last
   has M elements, none is empty, and the batches joined give the list back. *)
C6_ChunkedPartition ==
    rc = "chunked" =>
        LET N == Len(pairs)
            M == maxStreams
        IN  /\ Len(batches) = CeilDiv(N, M)
            /\ \A k \in 1..Len(batches) :
                /\ Len(batches[k]) = Min(M, N - (k - 1) * M)
                /\ Len(batches[k]) >= 1
                /\ k < Len(batches) => Len(batches[k]) = M
                /\ \A j \in 1..Len(batches[k]) : batches[k][j] = pairs[(k - 1) * M + j]
            /\ Concat(batches) = pairs

\* a list cut into several batches, the last one short
C6_Witness ==
    /\ rc = "chunked"
    /\ Len(batches) >= 2
    /\ Len(batches[Len(batches)]) < maxStreams
    /\ Len(batches[1]) = maxStreams

-----------------------------------------------------------------------------
(* Properties of convert_currency *)

\* the currencies of the request in upper case
UpperCase == { "BTC", "USDT", "ETH" }

\* the rows of pair (b, qt) that the request's lookup may use: all of them for a
\* latest request, those not after the requested timestamp for a historical one
Candidates(b, qt) ==
    { r \in quotes :
        /\ r.base = b
        /\ r.quote = qt
        /\ request.timestamp = << >> \/ r.timestamp <= request.timestamp[1] }

\* a latest request finds row r older than the one minute window
StaleFor(r) == request.timestamp = << >> /\ now - r.timestamp > FRESHNESS_MINUTES

\* this step produces the response
Responds == hpc # "responded" /\ hpc' = "responded"

(* C11: direct resolution.  When the store holds a row of (base, quote) that the
   lookup may use, the direct lookup returns one, and unless the freshness check
   rejects it the response is a success with rate = the row's price, inverted =
   false, amount_out = amount * rate, the row's timestamp, and base and quote in
   upper case. *)
C11_DirectResolution ==
    [][/\ (hpc = "direct" /\ hpc' # hpc
              /\ Candidates(upper(request.from), upper(request.to)) # {}) =>
              /\ q' # << >>
              /\ q'[1] \in Candidates(upper(request.from), upper(request.to))
       /\ (hpc = "afterDirect" /\ hpc' # hpc /\ q # << >> /\ ~StaleFor(q[1])) =>
              /\ q[1] \in quotes
              /\ response'.status = HTTP_OK
              /\ response'.rate = q[1].price
              /\ response'.inverted = FALSE
              /\ response'.amount_in = request.amount
              /\ RatEq(response'.amount_out, Mul(request.amount, q[1].price))
              /\ response'.timestamp = q[1].timestamp
              /\ response'.base = upper(request.from)
              /\ response'.quote = upper(request.to)
              /\ response'.base \in UpperCase /\ response'.quote \in UpperCase]_vars

\* a request typed in lower case was answered from the direct row: 2 units at
\* price 2 give 4
C11_Witness ==
    /\ hpc = "closed"
    /\ request.from = "btc"
    /\ response.status = HTTP_OK
    /\ response.inverted = FALSE
    /\ response.base = "BTC"
    /\ response.amount_out = Rat(MaxAmount * MaxPrice)

(* C12: inverse resolution.  The swapped pair is looked up if and only if the
   direct lookup found no row; a row of the swapped pair with a non-zero price
   gives rate = 1 / price, inverted = true and amount_out = amount * rate; a
   direct row that was found is always the one used. *)
C12_InverseResolution ==
    /\ [][/\ (hpc = "afterDirect" /\ hpc' # hpc) =>
                 /\ (q = << >>) <=> (hpc' = "inverse")
                 /\ q # << >> => (hpc' = "responded" /\ response'.inverted = FALSE)
          /\ (hpc = "inverse" /\ hpc' # hpc
                 /\ Candidates(upper(request.to), upper(request.from)) # {}) =>
                 /\ q' # << >>
                 /\ q'[1] \in Candidates(upper(request.to), upper(request.from))
          /\ (hpc = "afterInverse" /\ hpc' # hpc /\ q # << >>
                 /\ q[1].price.n # 0 /\ ~StaleFor(q[1])) =>
                 /\ q[1] \in quotes
                 /\ response'.status = HTTP_OK
                 /\ response'.inverted = TRUE
                 /\ response'.rate.d # 0
                 /\ response'.rate.n * q[1].price.n = response'.rate.d * q[1].price.d
                 /\ RatEq(response'.amount_out, Mul(request.amount, response'.rate))
                 /\ response'.timestamp = q[1].timestamp]_vars
    /\ [](hpc \in { "inverse", "afterInverse" } => inverted = FALSE)
    /\ [](hpc = "inverse" => q = << >>)

\* only the swapped pair had a row, at price 2: the rate is 1/2, 2 units give 1
C12_Witness ==
    /\ hpc = "closed"
    /\ response.status = HTTP_OK
    /\ response.inverted = TRUE
    /\ RatEq(response.rate, [n |-> 1, d |-> MaxPrice])
    /\ RatEq(response.amount_out, [n |-> MaxAmount, d |-> MaxPrice])

(* C13: freshness.  A request without timestamp whose resolved row (direct, or
   inverse with a price that can be inverted) is more than one minute old when the
   handler checks it fails with 400 quotes_outdated, and no such row is ever
   returned as a success; a request with a timestamp is never rejected as
   outdated. *)
C13_Freshness ==
    [][Responds =>
          /\ (request.timestamp = << >> /\ response'.status = HTTP_OK) =>
                 /\ q' # << >>
                 /\ response'.timestamp = q'[1].timestamp
                 /\ now - response'.timestamp <= 1
          /\ (request.timestamp = << >> /\ q' # << >> /\ now - q'[1].timestamp > 1
                 /\ ~(hpc = "afterInverse" /\ q[1].price.n = 0)) =>
                 /\ response'.status = 400
                 /\ response'.detail = "quotes_outdated"
          /\ request.timestamp # << >> => response'.detail # "quotes_outdated"]_vars

\* a latest request found only a row of the swapped pair, too old, and was refused
C13_Witness ==
    /\ hpc = "closed"
    /\ request.timestamp = << >>
    /\ inverted
    /\ response.status = 400
    /\ response.detail = "quotes_outdated"

\* a request for a past time was answered from a row older than the window
C13_WitnessHistorical ==
    /\ hpc = "closed"
    /\ request.timestamp # << >>
    /\ response.status = HTTP_OK
    /\ now - response.timestamp > 1

(* C14: historical lookup.  With timestamp T each lookup returns a row with the
   greatest timestamp among the pair's rows not after T, and nothing when there is
   none; a row newer than T is never used, and when all rows of both directions
   are newer than T the answer is 404.  Without timestamp the lookup returns a row
   with the greatest timestamp of all. *)
C14_HistoricalLookup ==
    /\ [][(hpc \in { "direct", "inverse" } /\ hpc' # hpc) =>
             LET b    == IF hpc = "direct" THEN upper(request.from) ELSE upper(request.to)
                 qt   == IF hpc = "direct" THEN upper(request.to) ELSE upper(request.from)
                 mine == { r \in quotes : r.base = b /\ r.quote = qt }
                 upTo == IF request.timestamp = << >> THEN mine
                         ELSE { r \in mine : r.timestamp <= request.timestamp[1] }
             IN  IF upTo = {} THEN q' = << >>
                 ELSE /\ q' # << >>
                      /\ q'[1] \in upTo
                      /\ \A o \in upTo : o.timestamp <= q'[1].timestamp]_vars
    /\ [](request.timestamp # << >> /\ response.status = HTTP_OK =>
             response.timestamp <= request.timestamp[1])
    /\ []((hpc \in { "responded", "closed" } /\ request.timestamp # << >>
             /\ \A r \in quotes : r.timestamp > request.timestamp[1]) =>
             response.status = 404)

\* the pair has a row newer than the requested time and an older one; the answer
\* comes from the older one
C14_Witness ==
    /\ hpc = "closed"
    /\ request.timestamp # << >>
    /\ response.status = HTTP_OK
    /\ \E r \in quotes :
          /\ r.base = q[1].base /\ r.quote = q[1].quote
          /\ r.timestamp > request.timestamp[1]
    /\ response.timestamp < request.timestamp[1]

(* C15: the answer is 404 "Conversion not available for this pair" exactly when
   the direct lookup and the swapped lookup both returned no row. *)
C15_NotFoundIffNoRow ==
    /\ [][Responds =>
             /\ (response'.status = 404) <=> (hpc = "afterInverse" /\ q = << >>)
             /\ (response'.detail = "Conversion not available for this pair")
                    <=> (response'.status = 404)]_vars
    /\ [](hpc = "inverse" => q = << >>)
    /\ []((hpc \in { "responded", "closed" }
             /\ Candidates(upper(request.from), upper(request.to)) = {}
             /\ Candidates(upper(request.to), upper(request.from)) = {}) =>
             response.status = 404)
    /\ [](response.status = 404 => q = << >>)

\* the table has rows of the pair asked for, all of them after the requested
\* time: not found
C15_Witness ==
    /\ hpc = "closed"
    /\ response.status = 404
    /\ request.from = "btc"
    /\ \E r \in quotes : r.base = "BTC" /\ r.quote = "USDT"

(* C16: when the direct lookup finds nothing and the swapped lookup finds a row
   whose price is exactly 0 the answer is 400 invalid_quote_zero_price; no
   success carries a rate obtained by dividing by zero. *)
C16_ZeroPriceRejected ==
    /\ [][(hpc = "afterInverse" /\ hpc' # hpc /\ q # << >> /\ q[1].price.n = 0) =>
             /\ hpc' = "responded"
             /\ response'.status = 400
             /\ response'.detail = "invalid_quote_zero_price"
             /\ q' = q]_vars
    /\ [](response.status = HTTP_OK => response.rate.d # 0 /\ response.amount_out.d # 0)
    /\ [](q # << >> => q[1].price.d # 0)

\* only the swapped pair had a row, and its price was 0
C16_Witness ==
    /\ hpc = "closed"
    /\ response.status = 400
    /\ response.detail = "invalid_quote_zero_price"
    /\ q # << >> /\ q[1].price = Rat(0)

(* C17: the handler is read-only.  No step of a request, the closing of its
   session included, adds, removes or changes a row: the reciprocal assigned to
   q.price stays on the loaded object. *)
C17_ReadOnly ==
    [][/\ hpc' # hpc => quotes' = quotes
       /\ \A r \in quotes : r \in quotes']_vars

\* an inverted answer was given and the session closed: the loaded object carries
\* the reciprocal, the stored row its price
C17_Witness ==
    /\ hpc = "closed"
    /\ response.status = HTTP_OK
    /\ inverted
    /\ q[1] \notin quotes
    /\ \E r \in quotes : r.id = q[1].id /\ r.price = Recip(q[1].price)

FailureKinds == { "PairNotAvailable", "ZeroPriceInversion", "StaleQuote" }

\* the failure this step answers with, "" when it answers with a conversion
FailureKind ==
    IF hpc = "afterInverse" /\ q = << >> THEN "PairNotAvailable"
    ELSE IF hpc = "afterInverse" /\ q[1].price.n = 0 THEN "ZeroPriceInversion"
    ELSE IF StaleFor(q'[1]) THEN "StaleQuote"
    ELSE ""

(* C18 as stated: each failure kind has a status code and a message that no other
   failure kind has. *)
C18_DistinctStatusAndMessage ==
    [][(Responds /\ FailureKind # "") =>
          \A other \in FailureKinds \ { FailureKind } :
              /\ response'.status # Failure(other).status
              /\ response'.detail # Failure(other).detail]_vars

(* C18: each failure kind is answered with its own message, and with a status
   code and message pair that no other failure kind has; the status code is 404
   for PairNotAvailable and 400 for both ZeroPriceInversion and StaleQuote. *)
C18_DistinctMessage ==
    [][(Responds /\ FailureKind # "") =>
          /\ response' = Failure(FailureKind)
          /\ response'.status # HTTP_OK
          /\ response'.status = IF FailureKind = "PairNotAvailable" THEN 404 ELSE 400
          /\ \A other \in FailureKinds \ { FailureKind } :
                /\ response'.detail # Failure(other).detail
                /\ << response'.status, response'.detail >>
                       # << Failure(other).status, Failure(other).detail >>]_vars

\* a stale row was refused with the status code a zero price is refused with
C18_Witness ==
    /\ hpc = "closed"
    /\ response.detail = "quotes_outdated"
    /\ response.status = Failure("ZeroPriceInversion").status

-----------------------------------------------------------------------------
(* Properties of cleanup_old_quotes *)

\* row r is older than the retention window at time t
Expired(r, t) == r.timestamp < t - QUOTE_RETENTION_DAYS * MINUTES_PER_DAY

(* C19: cleanup removes exactly the rows whose timestamp is before now minus the
   retention window and leaves every other row as it is; cleaning the result
   again at the same time removes nothing. *)
C19_CleanupExactIdempotent ==
    /\ [](LET kept == cleanup_old_quotes(quotes, now)
          IN  /\ kept \subseteq quotes
              /\ \A r \in quotes : r \in kept <=> ~Expired(r, now)
              /\ cleanup_old_quotes(kept, now) = kept)
    /\ [][(cutoff # << >> /\ cutoff' = << >>) =>
             /\ quotes' \subseteq quotes
             /\ \A r \in quotes : r \in quotes' <=> ~(r.timestamp < cutoff[1])
             /\ delete_before(quotes', cutoff[1]) = quotes']_vars

\* a cleanup has run on a table with a row just past the window and a row exactly
\* at its edge: the first is gone, the second is still there
C19_Witness ==
    /\ cutoff = << >>
    /\ now = 0
    /\ Cardinality(quotes) = 1
    /\ nextId = 3
    /\ \E r \in quotes : r.timestamp = 0 - QUOTE_RETENTION_DAYS * MINUTES_PER_DAY

(* C20: cleanup among concurrent writes.  A row is only ever removed by a cleanup
   whose cutoff is after the row's timestamp, and a cutoff is never later than
   now minus the retention window: a row written at the current time, during or
   after the computation of a cutoff, is not before that cutoff and survives, as
   does every row inside the window.  A cleanup leaves no row before its cutoff. *)
C20_CleanupKeepsNewRows ==
    /\ [][/\ \A r \in quotes \ quotes' : cutoff # << >> /\ r.timestamp < cutoff[1]
          /\ \A r \in quotes : ~Expired(r, now) => r \in quotes'
          /\ \A r \in quotes' \ quotes :
                /\ r.timestamp = now
                /\ cutoff # << >> => r.timestamp > cutoff[1]
          /\ (cutoff # << >> /\ cutoff' = << >>) =>
                \A r \in quotes' : ~(r.timestamp < cutoff[1])]_vars
    /\ [](cutoff # << >> => cutoff[1] <= now - QUOTE_RETENTION_DAYS * MINUTES_PER_DAY)

\* time has passed, a row was written at the current time and a cleanup has
\* removed an old row: the new row is there and nothing expired is left
C20_Witness ==
    /\ cutoff = << >>
    /\ now > 0
    /\ Cardinality(quotes) < nextId - 1
    /\ \E r \in quotes : r.timestamp = now /\ r.id = nextId - 1
    /\ \A r \in quotes : ~Expired(r, now)

-----------------------------------------------------------------------------
(* subscribe_tickers, message by message: what the websocket hands to the
   async for of binance.py 52-59, and what the generator does with it *)

NoFrame == [s |-> None, c |-> None]

\* the websocket messages: a TEXT message whose data is a JSON object carrying
\* the ticker ("object"), or the ticker under "data" ("wrapped"), or JSON that is
\* not an object ("array"), or no JSON at all ("garbage"); CLOSE, ERROR, and the
\* other message types (BINARY, PING)
Messages ==
    [type : { "TEXT" }, json : { "object", "wrapped" }, data : Frames]
        \cup [type : { "TEXT" }, json : { "array", "garbage" }, data : { NoFrame }]
        \cup [type : { "CLOSE", "ERROR", "BINARY" }, json : { "" }, data : { NoFrame }]

\* one round of async for msg in ws: json.loads raises JSONDecodeError on data
\* that is not JSON, payload.get raises AttributeError on JSON that is not an
\* object; CLOSE and ERROR leave the loop, other types fall through both ifs
subscribe_tickers_step(raw) ==
    IF raw.type = "TEXT"
    THEN IF raw.json \in { "object", "wrapped" }
         THEN [do |-> "yield", data |-> raw.data]
         ELSE [do |-> "raise", data |-> NoFrame]
    ELSE IF raw.type \in { "CLOSE", "ERROR" } THEN [do |-> "break", data |-> NoFrame]
    ELSE [do |-> "next", data |-> NoFrame]

\* the websocket has a message for the async for
Deliver(b, raw) ==
    /\ sup[b] = "streaming"
    /\ ~cancelReq[b]
    /\ inbox[b] = << >>
    /\ inbox' = [inbox EXCEPT ![b] = << raw >>]
    /\ UNCHANGED << sup, backoff, sleeping, fails, cancelReq, latest, lastTick >>
    /\ UNCHANGED << apiVars, consumerVars, saverVars, storeVars, now, writers >>

\* the message is taken: a yielded frame runs the loop body of run_batch; an
\* exception of the generator, or its return followed by the ConnectionError of
\* line 105, is caught by except Exception (lines 109-112)
Receive(b) ==
    /\ sup[b] = "streaming"
    /\ ~cancelReq[b]
    /\ inbox[b] # << >>
    /\ inbox' = [inbox EXCEPT ![b] = << >>]
    /\ LET out == subscribe_tickers_step(inbox[b][1])
       IN  IF out.do = "yield"
           THEN /\ latest' = [latest EXCEPT ![b] = Route(batches[b], @, out.data)]
                /\ lastTick' = [lastTick EXCEPT ![b] =
                                   IF Stored(batches[b], out.data) THEN << now >> ELSE @]
                /\ UNCHANGED << sup, backoff, sleeping, fails, cancelReq >>
           ELSE IF out.do = "next"
           THEN UNCHANGED << sup, backoff, sleeping, fails, cancelReq, latest, lastTick >>
           ELSE fails[b] < MaxFails /\ EnterBackoff(b)
    /\ UNCHANGED << apiVars, consumerVars, saverVars, storeVars, now, writers >>

NextFrames ==
    \/ DiscoverPairs
    \/ \E b \in BatchIds : ConnectOk(b)
    \/ \E b \in BatchIds : ConnectFail(b)
    \/ \E b \in BatchIds : \E raw \in Messages : Deliver(b, raw)
    \/ \E b \in BatchIds : Receive(b)
    \/ \E b \in BatchIds : BackoffElapsed(b)

\* one batch with every pair, its stream seen message by message
SpecFrames == InitOneBatch /\ [][NextFrames]_vars

\* the pair a wire symbol stands for in batch b, as a set: empty when unmapped
PairsOf(b, sym) ==
    { << batches[b][k][1], batches[b][k][2] >> :
        k \in { j \in DOMAIN batches[b] : batches[b][j][1] \o batches[b][j][2] = sym } }

\* the number a price string denotes, as a set: empty when it denotes none
NumberOf(c) == { n \in 1..3 : c = << "1", "2", "3" >>[n] }

\* the message is a tick of batch b: a ticker with a symbol of the batch and a
\* numeric price
ValidTick(b, raw) ==
    /\ raw.type = "TEXT"
    /\ raw.json \in { "object", "wrapped" }
    /\ raw.data.s # None
    /\ PairsOf(b, raw.data.s) # {}
    /\ NumberOf(raw.data.c) # {}

\* a step of batch b that handles the message it was handed
Handles(b) == b \in DOMAIN inbox /\ inbox[b] # << >> /\ inbox'[b] = << >>

\* the prices AggregatorState holds for a pair: none or one
Held(d, pair) == { d[k][2] : k \in { j \in DOMAIN d : d[j][1] = pair } }

(* C22: a frame that is no valid tick is skipped.  Whenever a streaming
   supervisor handles a text frame that lacks the symbol or the price, is
   otherwise malformed, names a symbol of no pair of the batch or has a price
   that is no number, AggregatorState is unchanged and the supervisor is still
   STREAMING afterwards, ready for the next frame. *)
C22_BadFramesSkipped ==
    [][\A b \in BatchIds :
          (Handles(b) /\ inbox[b][1].type = "TEXT" /\ ~ValidTick(b, inbox[b][1])) =>
              /\ latest'[b] = latest[b]
              /\ sup'[b] = "streaming"
              /\ sleeping'[b] = sleeping[b]]_vars

(* C23: last write wins.  Handling a valid tick sets its pair's entry to the
   tick's price and leaves every other pair's entry as it was; every other step,
   a reconnect included, leaves all entries as they were; entries start empty,
   and a pair has at most one entry, which belongs to a pair of the batch. *)
C23_LastWriteWins ==
    /\ [][/\ rc = "discover" => \A b \in DOMAIN latest' : latest'[b] = << >>
          /\ \A b \in BatchIds : \A pr \in PairsOf(b, "BTCUSDT") \cup PairsOf(b, "ETHUSDT") :
                IF Handles(b) /\ ValidTick(b, inbox[b][1])
                   /\ pr \in PairsOf(b, inbox[b][1].data.s)
                THEN Held(latest'[b], pr) = { Rat(n) : n \in NumberOf(inbox[b][1].data.c) }
                ELSE Held(latest'[b], pr) = Held(latest[b], pr)]_vars
    /\ [](\A b \in BatchIds : \A k \in DOMAIN latest[b] :
            /\ \E j \in DOMAIN batches[b] :
                  latest[b][k][1] = << batches[b][j][1], batches[b][j][2] >>
            /\ \A j \in DOMAIN latest[b] : latest[b][j][1] = latest[b][k][1] => j = k)

\* after a stream failure the supervisor is reconnecting and both pairs are
\* still held, the first at a price that overwrote a lower one
C23_Witness ==
    \E b \in BatchIds :
        /\ sup[b] = "connecting"
        /\ fails[b] > 0
        /\ Len(latest[b]) = MaxPairs
        /\ latest[b][1][2] = Rat(MaxPrice)
        /\ latest[b][2][2] = Rat(1)

-----------------------------------------------------------------------------
(* The flush cycle and the store *)

\* batch b is inside a flush cycle: between the snapshot and the end of cleanup
InCycle(b) == saver[b] \in { "write", "cleanup" }

\* this step ends batch b's cycle without completing it: a write fails, the
\* cleanup of the first flush fails, or the flusher is cancelled inside it
Aborts(b) ==
    /\ InCycle(b)
    /\ \/ saver'[b] = "closing"
       \/ saver[b] = "write" /\ saver'[b] \in { "poll", "sleep" }
       \/ saver'[b] = "poll" /\ ~first_flush_done'[b]

(* C24: a flush cycle is one transaction.  When a cycle of the only batch is
   aborted, none of the rows it wrote (the last idx - 1 identifiers handed out)
   is in the store afterwards; so while the first flush has not succeeded and
   the flusher is between attempts, the store holds no row. *)
C24_CycleIsOneTransaction ==
    /\ [][\A b \in BatchIds :
            Aborts(b) => \A r \in quotes' : r.id < nextId - (idx[b] - 1)]_vars
    /\ [](\A b \in BatchIds :
            (~first_flush_done[b] /\ saver[b] = "poll") => quotes = {})

(* C25: the flusher writes from a point-in-time copy.  A cycle starts with the
   snapshot equal to AggregatorState at that instant; until the cycle ends the
   snapshot stays as taken, whatever ticks are routed meanwhile; every row
   written is the next entry of the snapshot, once each and in order, stamped
   with the time of the write; the cleanup comes after the last entry. *)
C25_FlushWritesSnapshot ==
    /\ [][\A b \in BatchIds :
            /\ (~InCycle(b) /\ saver'[b] = "write") =>
                  snap'[b] = latest[b] /\ idx'[b] = 1
            /\ (InCycle(b) /\ saver'[b] \in { "write", "cleanup" }) => snap'[b] = snap[b]
            /\ quotes' \ quotes # {} =>
                  /\ saver[b] = "write"
                  /\ idx'[b] = idx[b] + 1
                  /\ \A r \in quotes' \ quotes :
                        /\ r.base = snap[b][idx[b]][1][1]
                        /\ r.quote = snap[b][idx[b]][1][2]
                        /\ r.price = snap[b][idx[b]][2]
                        /\ r.timestamp = now]_vars
    /\ [](\A b \in BatchIds :
            /\ saver[b] = "write" => idx[b] \in 1..Len(snap[b])
            /\ saver[b] = "cleanup" => idx[b] = Len(snap[b]) + 1)

\* a cycle that snapshotted one pair has written its row at the snapshot price
\* while the supervisor overwrote that price and added a second pair
C25_Witness ==
    \E b \in BatchIds :
        /\ saver[b] = "cleanup"
        /\ Len(snap[b]) = 1
        /\ Len(latest[b]) = MaxPairs
        /\ latest[b][1][2] # snap[b][1][2]
        /\ \E r \in quotes : r.id = nextId - 1 /\ r.price = snap[b][1][2]

-----------------------------------------------------------------------------
(* tests/test_concurrency.py: independent writers of one pair, each with its
   own session: s.add(Quote(...)), await s.commit() *)

WriterIds == 0..(MaxWriters - 1)

\* Quote(base="DOGE", quote="USDT", price=0.1 + i / 1000.0, timestamp=ts) with
\* ts = utcnow() - timedelta(seconds=i): a timestamp of its own for each writer
QuoteOf(i, t) ==
    [base |-> "DOGE", quote |-> "USDT", price |-> [n |-> 100 + i, d |-> 1000],
     timestamp |-> t - i]

\* s.add(...): the row is pending in writer i's session
WriterAdd(i) ==
    /\ writers[i].pc = "start"
    /\ writers' = [writers EXCEPT ![i] = [pc |-> "added", pending |-> << QuoteOf(i, now) >>]]
    /\ UNCHANGED << apiVars, consumerVars, supVars, saverVars, storeVars, now >>

\* await s.commit() returns: the INSERT took the next primary key
WriterCommit(i) ==
    /\ writers[i].pc = "added"
    /\ LET row == writers[i].pending[1]
       IN  quotes' = save_quote(quotes, nextId, row.base, row.quote, row.price,
                                row.timestamp)
    /\ nextId' = nextId + 1
    /\ writers' = [writers EXCEPT ![i] = [pc |-> "committed", pending |-> << >>]]
    /\ UNCHANGED << apiVars, consumerVars, supVars, saverVars, now >>

\* the table may hold rows of other pairs; no writer has started
InitWriters ==
    /\ maxStreams = MaxLimit
    /\ feed = OneLevel
    /\ rc = "writers"
    /\ pairs = << >>
    /\ batches = << >>
    /\ sup = << >>
    /\ backoff = << >>
    /\ sleeping = << >>
    /\ fails = << >>
    /\ cancelReq = << >>
    /\ latest = << >>
    /\ inbox = << >>
    /\ lastTick = << >>
    /\ first_flush_done = << >>
    /\ saver = << >>
    /\ snap = << >>
    /\ idx = << >>
    /\ cycles = 0
    /\ saverCancel = << >>
    /\ quotes \in SeedTables({ 0 })
    /\ nextId = Cardinality(quotes) + 1
    /\ now = 0
    /\ writers = [i \in WriterIds |-> [pc |-> "start", pending |-> << >>]]
    /\ NoApi

NextWriters ==
    \/ \E i \in WriterIds : WriterAdd(i)
    \/ \E i \in WriterIds : WriterCommit(i)
    \/ Advance

SpecWriters == InitWriters /\ [][NextWriters]_vars

\* the rows of the writers' pair
WrittenRows == { r \in quotes : r.base = "DOGE" /\ r.quote = "USDT" }

(* C21: concurrent writers of one pair.  In every interleaving a writer that
   has added its row can commit; no commit removes or changes a row that was
   there; the pair has as many rows as writers have committed, so once all N
   have committed it has exactly N rows, one per writer, under N distinct
   primary keys. *)
C21_NoLostWrites ==
    /\ [][\A r \in quotes : r \in quotes']_vars
    /\ [](\A i \in DOMAIN writers : writers[i].pc = "added" => ENABLED WriterCommit(i))
    /\ [](Cardinality(WrittenRows) =
             Cardinality({ i \in DOMAIN writers : writers[i].pc = "committed" }))
    /\ []((writers # << >> /\ \A i \in DOMAIN writers : writers[i].pc = "committed") =>
             /\ Cardinality(WrittenRows) = MaxWriters
             /\ Cardinality({ r.id : r \in WrittenRows }) = MaxWriters
             /\ \A i \in DOMAIN writers :
                   \E r \in WrittenRows : r.price = [n |-> 100 + i, d |-> 1000])

\* all writers have committed, not in the order of their numbers, next to a row
\* of another pair
C21_Witness ==
    /\ writers # << >>
    /\ \A i \in DOMAIN writers : writers[i].pc = "committed"
    /\ quotes # WrittenRows
    /\ \E r1, r2 \in WrittenRows : r1.id < r2.id /\ r1.price.n > r2.price.n

-----------------------------------------------------------------------------
(* Consumer and API side by side: one batch ingesting and flushing while a
   'latest' conversion is waiting to run its query *)

\* the messages of a feed that sends tickers of the catalog until it closes
FeedMessages ==
    { m \in Messages : \/ m.type = "CLOSE"
                       \/ /\ m.json = "object"
                          /\ m.data.c \in feed
                          /\ \E k \in 1..MaxPairs : m.data.s = upper(Catalog[k][3]) }

\* the consumer has started one freshness window before time 0; a request for
\* the latest rate has arrived and has not yet queried the store
InitOutage ==
    /\ maxStreams = MaxLimit
    /\ feed = OneLevel
    /\ rc = "discover"
    /\ pairs = << >>
    /\ batches = << >>
    /\ sup = << >>
    /\ backoff = << >>
    /\ sleeping = << >>
    /\ fails = << >>
    /\ cancelReq = << >>
    /\ latest = << >>
    /\ inbox = << >>
    /\ lastTick = << >>
    /\ first_flush_done = << >>
    /\ saver = << >>
    /\ snap = << >>
    /\ idx = << >>
    /\ cycles = 0
    /\ saverCancel = << >>
    /\ quotes = {}
    /\ nextId = 1
    /\ now = 0 - FRESHNESS_MINUTES
    /\ writers = << >>
    /\ cutoff = << >>
    /\ request \in { r \in Requests : r.timestamp = << >> /\ r.amount = Rat(1) }
    /\ hpc = "direct"
    /\ q = << >>
    /\ inverted = FALSE
    /\ response = NoResponse

NextOutage ==
    \/ DiscoverPairs
    \/ \E b \in BatchIds : ConnectOk(b)
    \/ \E b \in BatchIds : \E raw \in FeedMessages : Deliver(b, raw)
    \/ \E b \in BatchIds : Receive(b)
    \/ \E b \in BatchIds : BackoffElapsed(b)
    \/ \E b \in BatchIds : PollElapsed(b)
    \/ \E b \in BatchIds : IntervalElapsed(b)
    \/ \E b \in BatchIds : SaveQuote(b)
    \/ \E b \in BatchIds : Cleanup(b)
    \/ ExecDirect
    \/ AfterDirect
    \/ ExecInverse
    \/ AfterInverse
    \/ CloseSession
    \/ Advance

SpecOutage == InitOutage /\ [][NextOutage]_vars

(* C26: rows carry the flush time and AggregatorState is never cleared.  No
   step removes an entry of latest, and only the handling of a tick changes one;
   every flush cycle, whatever state the supervisor is in, snapshots all of
   latest and every row written carries a snapshot price and the time of the
   write; the freshness check of a 'latest' conversion looks at the row's
   timestamp only: a conversion is answered whenever the row is no older than
   the freshness window. *)
C26_FlushTimeNotTickTime ==
    [][/\ \A b \in BatchIds :
            /\ \A k \in DOMAIN latest[b] :
                  k \in DOMAIN latest'[b] /\ latest'[b][k][1] = latest[b][k][1]
            /\ ~Handles(b) => latest'[b] = latest[b]
            /\ (~InCycle(b) /\ saver'[b] = "write") => snap'[b] = latest[b]
            /\ \A r \in quotes' \ quotes :
                  /\ r.timestamp = now
                  /\ \E k \in DOMAIN snap[b] :
                        /\ r.base = snap[b][k][1][1]
                        /\ r.quote = snap[b][k][1][2]
                        /\ r.price = snap[b][k][2]
       /\ (hpc # "responded" /\ hpc' = "responded" /\ q' # << >>) =>
             response'.status = IF now - q'[1].timestamp > FRESHNESS_MINUTES
                                THEN HTTP_BAD_REQUEST ELSE HTTP_OK]_vars

\* the stream is lost and the supervisor is backing off or reconnecting; a
\* 'latest' conversion was answered from a row written more than a freshness
\* window after the last tick had arrived
C26_Witness ==
    \E b \in BatchIds :
        /\ sup[b] \in { "backoff", "connecting" }
        /\ fails[b] > 0
        /\ lastTick[b] # << >>
        /\ response.status = HTTP_OK
        /\ response.timestamp - lastTick[b][1] > FRESHNESS_MINUTES
        /\ \E k \in DOMAIN latest[b] : latest[b][k][2] = response.rate

====
